---- MODULE Spec2Model ----
(***************************************************************************)
(* Logbook: the selection-aware Markdown decoration engine                 *)
(* (src/src/extensions/hideMarkers.ts, second definition, lines 248-626)   *)
(* as a state machine of the CodeMirror view that hosts it, the theme hook *)
(* (src/src/theme/useTheme.ts) and the lifecycle of the component that     *)
(* owns the view (src/src/components/MarkdownEditor.tsx).                  *)
(*                                                                         *)
(* A document is a sequence of one-character strings; offsets are the      *)
(* editor's 0-based offsets, so the character at offset k is doc[k + 1].   *)
(* Ranges [from, to) are records with fields from and to.                  *)
(***************************************************************************)
EXTENDS Integers, Sequences, FiniteSets, TLC

VARIABLES
    doc,            \* view.state.doc
    tree,           \* syntaxTree(view.state)
    selection,      \* view.state.selection.ranges
    visibleRanges,  \* view.visibleRanges
    decorations,    \* the plugin's field `decorations`
    handlers,       \* the mousedown closures of the checkbox DOM on screen
    fired,          \* the closure that ran in the most recent step, if any
    edits,          \* number of typing transactions so far
    themeId,        \* useTheme: the state `themeId` of the last render
    theme,          \* useTheme: the memoised theme object
    updates,        \* useTheme: setThemeId calls queued for the next render
    effectDue,      \* useTheme: the effect of lines 33-38 is scheduled
    storage,        \* localStorage["logbook.theme"]
    rootTheme,      \* document.documentElement.dataset.theme
    cycleRun,       \* the run of consecutive cycleTheme calls in progress
    containerRef,   \* MarkdownEditor: containerRef.current is a DOM node
    editorViewRef,  \* MarkdownEditor: editorViewRef.current (0 is null)
    views,          \* the EditorViews created so far, "live" or "destroyed"
    timers,         \* number of debug timeouts set and not yet fired
    kind,           \* MarkdownEditor: the prop theme.kind of the last render
    effects,        \* the effect callbacks React has scheduled, in order
    cleanupOf,      \* the view captured by the pending cleanup (0 is none)
    lastOp          \* the most recent use of a view by an effect or a timer

viewVars == <<doc, tree, selection, visibleRanges, decorations, handlers,
              fired, edits>>

themeVars == <<themeId, theme, updates, effectDue, storage, rootTheme, cycleRun>>

editorVars == <<containerRef, editorViewRef, views, timers, kind, effects,
                cleanupOf, lastOp>>

vars == <<viewVars, themeVars, editorVars>>

\* Bounds of the model.
MaxEdits == 1
MaxPending == 2
MaxRun == 3
MaxViews == 3

Max(a, b) == IF a >= b THEN a ELSE b
Min(a, b) == IF a <= b THEN a ELSE b

R(f, t) == [from |-> f, to |-> t]

(***************************************************************************)
(* Document text                                                           *)
(***************************************************************************)

\* view.state.sliceDoc(from, to)
sliceDoc(d, f, t) ==
    LET a == Max(0, Min(f, Len(d)))
        b == Max(a, Min(t, Len(d)))
    IN  SubSeq(d, a + 1, b)

\* Offsets of the line breaks of d.
Breaks(d) == {k \in 0..(Len(d) - 1) : d[k + 1] = "\n"}

\* view.state.doc.lineAt(pos): the line [from, to] (line break excluded)
\* that contains offset pos.
lineAt(d, pos) ==
    LET before == {k \in Breaks(d) : k < pos}
        after  == {k \in Breaks(d) : k >= pos}
        lf == IF before = {} THEN 0
              ELSE (CHOOSE k \in before : \A j \in before : j <= k) + 1
        lt == IF after = {} THEN Len(d)
              ELSE CHOOSE k \in after : \A j \in after : k <= j
    IN  R(lf, lt)

\* The lines of d in document order.
Lines(d) ==
    LET RECURSIVE from(_)
        from(p) == IF p > Len(d) THEN <<>>
                   ELSE LET l == lineAt(d, p)
                        IN  <<l>> \o (IF l.to >= Len(d) THEN <<>> ELSE from(l.to + 1))
    IN  from(0)

(***************************************************************************)
(* The syntax tree.  A node is [name, from, to, children]; the tree is the *)
(* one the Markdown (GFM) parser of the host hands to syntaxTree() for the *)
(* block and inline constructs hideMarkers.ts inspects.                    *)
(***************************************************************************)

N(nm, f, t, ch) == [name |-> nm, from |-> f, to |-> t, children |-> ch]

\* The character at offset k, "" outside the document.
At(d, k) == IF k >= 0 /\ k < Len(d) THEN d[k + 1] ELSE ""

\* delim occurs at offset k and ends no later than e.
Match(d, k, delim, e) ==
    /\ k + Len(delim) <= e
    /\ \A j \in 1..Len(delim) : At(d, k + j - 1) = delim[j]

\* The first offset in s..e at which a closing delim occurs that is not
\* preceded by a space; -1 when there is none.
FindClose(d, delim, s, e) ==
    LET hits == {k \in s..(e - Len(delim)) :
                    Match(d, k, delim, e) /\ At(d, k - 1) # " "}
    IN  IF hits = {} THEN -1 ELSE CHOOSE k \in hits : \A j \in hits : k <= j

\* The backquote character (written as a token: the lexer of the tools reads
\* a backquote inside a string as the start of a comment).
BQ == "BQ"

\* The inline delimiters, longest first: opening text, node name, mark name,
\* and whether the content is parsed for nested inline nodes.
InlineKinds ==
    << [delim |-> <<BQ>>,       node |-> "InlineCode",     mark |-> "CodeMark",          nest |-> FALSE],
       [delim |-> <<"*", "*">>, node |-> "StrongEmphasis", mark |-> "EmphasisMark",      nest |-> TRUE],
       [delim |-> <<"~", "~">>, node |-> "Strikethrough",  mark |-> "StrikethroughMark", nest |-> TRUE],
       [delim |-> <<"*">>,      node |-> "Emphasis",       mark |-> "EmphasisMark",      nest |-> TRUE] >>

\* The index of the inline kind that opens and closes at offset i, 0 if none.
OpensAt(d, i, e) ==
    LET ok(n) == LET k == InlineKinds[n]
                     w == Len(k.delim)
                 IN  /\ Match(d, i, k.delim, e)
                     /\ At(d, i + w) # " "
                     /\ FindClose(d, k.delim, i + w + 1, e) # -1
        S == {n \in 1..Len(InlineKinds) : ok(n)}
    IN  IF S = {} THEN 0 ELSE CHOOSE n \in S : \A m \in S : n <= m

RECURSIVE ParseInline(_, _, _)
\* The inline nodes of d within [i, e), in document order.
ParseInline(d, i, e) ==
    IF i >= e THEN <<>>
    ELSE LET n == OpensAt(d, i, e)
         IN  IF n = 0 THEN ParseInline(d, i + 1, e)
             ELSE LET k == InlineKinds[n]
                      w == Len(k.delim)
                      c == FindClose(d, k.delim, i + w + 1, e)
                      inner == IF k.nest THEN ParseInline(d, i + w, c) ELSE <<>>
                  IN  << N(k.node, i, c + w,
                           <<N(k.mark, i, i + w, <<>>)>> \o inner
                              \o <<N(k.mark, c, c + w, <<>>)>>) >>
                      \o ParseInline(d, c + w, e)

Digits == {"0", "1", "2", "3", "4", "5", "6", "7", "8", "9"}

RECURSIVE RunLen(_, _, _, _)
\* The length of the run of characters of class S at offset i within [i, e).
RunLen(d, i, e, S) ==
    IF i < e /\ At(d, i) \in S THEN 1 + RunLen(d, i + 1, e, S) ELSE 0

\* The task marker "[ ]", "[x]" or "[X]" followed by a space at offset c.
IsTaskStart(d, c, e) ==
    /\ c + 4 <= e
    /\ At(d, c) = "["
    /\ At(d, c + 1) \in {" ", "x", "X"}
    /\ At(d, c + 2) = "]"
    /\ At(d, c + 3) = " "

\* The block nodes of the line [lf, lt) of d.
ParseLine(d, lf, lt) ==
    LET h  == RunLen(d, lf, lt, {"#"})
        nd == RunLen(d, lf, lt, Digits)
        endsMark(p) == p = lt \/ At(d, p) = " "
        bullet  == At(d, lf) \in {"-", "*", "+"} /\ lf < lt /\ endsMark(lf + 1)
        ordered == /\ nd >= 1 /\ lf + nd < lt
                   /\ At(d, lf + nd) \in {".", ")"}
                   /\ endsMark(lf + nd + 1)
        m  == IF bullet THEN 1 ELSE nd + 1
        cs == lf + m + 1
        item == IF cs >= lt
                THEN N("ListItem", lf, lf + m, <<N("ListMark", lf, lf + m, <<>>)>>)
                ELSE N("ListItem", lf, lt,
                       << N("ListMark", lf, lf + m, <<>>),
                          IF IsTaskStart(d, cs, lt)
                          THEN N("Task", cs, lt,
                                 <<N("TaskMarker", cs, cs + 3, <<>>)>>
                                    \o ParseInline(d, cs + 3, lt))
                          ELSE N("Paragraph", cs, lt, ParseInline(d, cs, lt)) >>)
        level == <<"ATXHeading1", "ATXHeading2", "ATXHeading3",
                   "ATXHeading4", "ATXHeading5", "ATXHeading6">>
    IN  IF lf >= lt THEN <<>>
        ELSE IF h >= 1 /\ h <= 6 /\ endsMark(lf + h)
        THEN << N(level[h], lf, lt,
                  <<N("HeaderMark", lf, lf + h, <<>>)>>
                     \o ParseInline(d, Min(lf + h + 1, lt), lt)) >>
        ELSE IF bullet THEN << N("BulletList", lf, item.to, <<item>>) >>
        ELSE IF ordered THEN << N("OrderedList", lf, item.to, <<item>>) >>
        ELSE << N("Paragraph", lf, lt, ParseInline(d, lf, lt)) >>

RECURSIVE ParseBlocks(_, _)
ParseBlocks(d, ls) ==
    IF ls = <<>> THEN <<>>
    ELSE ParseLine(d, Head(ls).from, Head(ls).to) \o ParseBlocks(d, Tail(ls))

\* syntaxTree(state) for the document d.
Parse(d) == N("Document", 0, Len(d), ParseBlocks(d, Lines(d)))

(***************************************************************************)
(* Decoration definitions (hideMarkers.ts 272-355).  A decoration value is *)
(* [family, cls, checked, pos, num]: family "mark" is Decoration.mark,     *)
(* family "replace" is Decoration.replace with a widget; checked and pos   *)
(* are the CheckboxWidget's fields, num the OrderedListWidget's.           *)
(***************************************************************************)

MarkDeco(c) ==
    [family |-> "mark", cls |-> c, checked |-> FALSE, pos |-> -1, num |-> <<>>]

WidgetDeco(c, ck, p, n) ==
    [family |-> "replace", cls |-> c, checked |-> ck, pos |-> p, num |-> n]

headingDecorations ==
    [l \in 1..6 |->
        MarkDeco(<<"cm-heading cm-heading-1", "cm-heading cm-heading-2",
                   "cm-heading cm-heading-3", "cm-heading cm-heading-4",
                   "cm-heading cm-heading-5", "cm-heading cm-heading-6">>[l])]

emphasisDeco == MarkDeco("cm-emphasis")
strongDeco == MarkDeco("cm-strong")
inlineCodeDeco == MarkDeco("cm-inline-code")
strikeDeco == MarkDeco("cm-strikethrough")

hideDecoration == WidgetDeco("cm-hidden-marker", FALSE, -1, <<>>)
bulletDecoration == WidgetDeco("cm-list-bullet", FALSE, -1, <<>>)
checkboxDecoration(ck, p) == WidgetDeco("cm-checkbox", ck, p, <<>>)
orderedListDecoration(n) == WidgetDeco("cm-list-number", FALSE, -1, n)

\* One element of the array `decos`.
Req(f, t, deco) == [from |-> f, to |-> t, deco |-> deco]

(***************************************************************************)
(* Cursor check utilities (hideMarkers.ts 361-373).  A view v is           *)
(* [doc, tree, selection, visibleRanges].                                  *)
(***************************************************************************)

\* isCursorInRange with a touching range not counted as inside.
isCursorInRangeStrict(v, f, t) ==
    \E i \in 1..Len(v.selection) :
        v.selection[i].from < t /\ v.selection[i].to > f

\* isCursorInRange looking at the main range only.
isCursorInRangeMainOnly(v, f, t) ==
    v.selection[1].from <= t /\ v.selection[1].to >= f

isCursorInRange(v, f, t) ==
    \E i \in 1..Len(v.selection) :
        v.selection[i].from <= t /\ v.selection[i].to >= f

\* isCursorOnLine with the end of the line left out.
isCursorOnLineBeforeEnd(v, pos) ==
    LET line == lineAt(v.doc, pos)
    IN  \E i \in 1..Len(v.selection) :
            v.selection[i].from <= line.to - 1 /\ v.selection[i].to >= line.from

isCursorOnLine(v, pos) ==
    LET line == lineAt(v.doc, pos)
    IN  isCursorInRange(v, line.from, line.to)

(***************************************************************************)
(* buildDecorations (hideMarkers.ts 379-603): the branches of enter(node). *)
(***************************************************************************)

\* The children of node named nm, in sibling order (the firstChild /
\* nextSibling loops).
ChildrenNamed(node, nm) == SelectSeq(node.children, LAMBDA c : c.name = nm)

\* node.name.match(/^ATXHeading(\d)$/) followed by parseInt: the level, or
\* -1 when the name does not match.
headingMatch(nm) ==
    LET names == <<"ATXHeading0", "ATXHeading1", "ATXHeading2", "ATXHeading3",
                   "ATXHeading4", "ATXHeading5", "ATXHeading6", "ATXHeading7",
                   "ATXHeading8", "ATXHeading9">>
        S == {l \in 0..9 : names[l + 1] = nm}
    IN  IF S = {} THEN -1 ELSE CHOOSE l \in S : TRUE

\* The heading branch without the clamp of hideEnd to node.to.
HeadingRequestsNoClamp(v, node) ==
    LET level == headingMatch(node.name)
        marks == SelectSeq(node.children, LAMBDA c : c.name = "HeaderMark")
    IN  IF level = -1 THEN <<>>
        ELSE (IF level \in DOMAIN headingDecorations
              THEN <<Req(node.from, node.to, headingDecorations[level])>>
              ELSE <<>>)
             \o (IF ~isCursorOnLine(v, node.from) /\ marks # <<>>
                 THEN <<Req(marks[1].from, marks[1].to + 1, hideDecoration)>>
                 ELSE <<>>)

\* ATX headings: lines 396-417.
HeadingRequests(v, node) ==
    LET level == headingMatch(node.name)
        marks == ChildrenNamed(node, "HeaderMark")
    IN  IF level = -1 THEN <<>>
        ELSE (IF level \in DOMAIN headingDecorations
              THEN <<Req(node.from, node.to, headingDecorations[level])>>
              ELSE <<>>)
             \o (IF ~isCursorOnLine(v, node.from) /\ marks # <<>>
                 THEN LET child == marks[1]
                          hideEnd == Min(child.to + 1, node.to)
                      IN  <<Req(child.from, hideEnd, hideDecoration)>>
                 ELSE <<>>)

\* SpanRequests with the content styled only while the marks are hidden.
SpanRequestsStyleWhenHidden(v, node, markName, deco) ==
    LET cursorIn == \E i \in 1..Len(v.selection) :
                        v.selection[i].from <= node.to /\ v.selection[i].to >= node.from
        marks == SelectSeq(node.children, LAMBDA c : c.name = markName)
    IN  IF marks = <<>> \/ cursorIn THEN <<>>
        ELSE << Req(marks[1].to, marks[Len(marks)].from, deco),
                Req(marks[1].from, marks[1].to, hideDecoration),
                Req(marks[Len(marks)].from, marks[Len(marks)].to, hideDecoration) >>

\* The shared shape of the Emphasis, StrongEmphasis and Strikethrough
\* branches: the content is styled when a first and a last mark exist, and
\* both marks are hidden when no selection range touches the node.
SpanRequests(v, node, markName, deco) ==
    LET cursorIn == isCursorInRange(v, node.from, node.to)
        marks == ChildrenNamed(node, markName)
    IN  IF marks = <<>> THEN <<>>
        ELSE LET firstMark == marks[1]
                 lastMark == marks[Len(marks)]
             IN  <<Req(firstMark.to, lastMark.from, deco)>>
                 \o (IF ~cursorIn
                     THEN << Req(firstMark.from, firstMark.to, hideDecoration),
                             Req(lastMark.from, lastMark.to, hideDecoration) >>
                     ELSE <<>>)

\* Emphasis: lines 419-441.
EmphasisRequests(v, node) ==
    IF node.name = "Emphasis"
    THEN SpanRequests(v, node, "EmphasisMark", emphasisDeco) ELSE <<>>

\* Strong: lines 443-465.
StrongRequests(v, node) ==
    IF node.name = "StrongEmphasis"
    THEN SpanRequests(v, node, "EmphasisMark", strongDeco) ELSE <<>>

\* Inline code: lines 467-489.
InlineCodeRequests(v, node) ==
    LET marks == ChildrenNamed(node, "CodeMark")
    IN  IF node.name # "InlineCode" THEN <<>>
        ELSE <<Req(node.from, node.to, inlineCodeDeco)>>
             \o (IF ~isCursorInRange(v, node.from, node.to) /\ marks # <<>>
                 THEN << Req(marks[1].from, marks[1].to, hideDecoration),
                         Req(marks[Len(marks)].from, marks[Len(marks)].to,
                             hideDecoration) >>
                 ELSE <<>>)

\* Strikethrough: lines 491-513.
StrikethroughRequests(v, node) ==
    IF node.name = "Strikethrough"
    THEN SpanRequests(v, node, "StrikethroughMark", strikeDeco) ELSE <<>>

IsSpace(c) == c \in {" ", "\n"}

RECURSIVE trim(_)
\* String.prototype.trim
trim(s) ==
    IF s = <<>> THEN s
    ELSE IF IsSpace(s[1]) THEN trim(Tail(s))
    ELSE IF IsSpace(s[Len(s)]) THEN trim(SubSeq(s, 1, Len(s) - 1))
    ELSE s

\* The test of the marker text with either delimiter of an ordered list
\* item accepted: /^\d+[.)]$/.
IsOrderedMarkAnyDelimiter(s) ==
    /\ Len(s) >= 2
    /\ s[Len(s)] \in {".", ")"}
    /\ \A i \in 1..(Len(s) - 1) : s[i] \in Digits

\* /^\d+\.$/.test(s)
IsOrderedMark(s) ==
    /\ Len(s) >= 2
    /\ s[Len(s)] = "."
    /\ \A i \in 1..(Len(s) - 1) : s[i] \in Digits

\* The ListItem branch without the skip of items that contain a Task.
ListItemRequestsWithTasks(v, node) ==
    LET marks == SelectSeq(node.children, LAMBDA c : c.name = "ListMark")
    IN  IF node.name # "ListItem" \/ marks = <<>> THEN <<>>
        ELSE LET child == marks[1]
                 markText == trim(sliceDoc(v.doc, child.from, child.to))
             IN  IF isCursorInRange(v, child.from, child.to) THEN <<>>
                 ELSE IF IsOrderedMark(markText)
                 THEN <<Req(child.from, child.to + 1, orderedListDecoration(markText))>>
                 ELSE <<Req(child.from, child.to + 1, bulletDecoration)>>

\* List items: lines 515-546.
ListItemRequests(v, node) ==
    LET hasTask == ChildrenNamed(node, "Task") # <<>>
        marks == ChildrenNamed(node, "ListMark")
    IN  IF node.name # "ListItem" \/ hasTask \/ marks = <<>> THEN <<>>
        ELSE LET child == marks[1]
                 markText == trim(sliceDoc(v.doc, child.from, child.to))
                 cursorInMarker == isCursorInRange(v, child.from, child.to)
             IN  IF cursorInMarker THEN <<>>
                 ELSE IF IsOrderedMark(markText)
                 THEN <<Req(child.from, child.to + 1, orderedListDecoration(markText))>>
                 ELSE <<Req(child.from, child.to + 1, bulletDecoration)>>

\* text.includes(c)
includes(text, c) == \E i \in 1..Len(text) : text[i] = c

\* The Task branch with the cursor test up to taskMarker.to.
TaskRequestsToMarkerEnd(v, node, parent) ==
    LET listMarks == IF parent.name = "ListItem"
                     THEN SelectSeq(parent.children, LAMBDA c : c.name = "ListMark")
                     ELSE <<>>
        taskMarkers == SelectSeq(node.children, LAMBDA c : c.name = "TaskMarker")
    IN  IF node.name # "Task" \/ taskMarkers = <<>> THEN <<>>
        ELSE LET taskMarker == taskMarkers[1]
                 rangeStart == IF listMarks # <<>> THEN listMarks[1].from
                               ELSE taskMarker.from
                 text == sliceDoc(v.doc, taskMarker.from, taskMarker.to)
                 checked == \E i \in 1..Len(text) : text[i] \in {"x", "X"}
             IN  IF \E i \in 1..Len(v.selection) :
                        /\ v.selection[i].from <= taskMarker.to
                        /\ v.selection[i].to >= rangeStart
                 THEN <<>>
                 ELSE (IF listMarks # <<>>
                       THEN <<Req(listMarks[1].from, listMarks[1].to + 1, hideDecoration)>>
                       ELSE <<>>)
                      \o <<Req(taskMarker.from, taskMarker.to,
                               checkboxDecoration(checked, taskMarker.from))>>

\* The Task branch with the list mark hidden whatever the cursor does: the
\* hide is requested outside the cursor test.
TaskRequestsHideMarkAlways(v, node, parent) ==
    LET listMarks == IF parent.name = "ListItem"
                     THEN SelectSeq(parent.children, LAMBDA c : c.name = "ListMark")
                     ELSE <<>>
        taskMarkers == SelectSeq(node.children, LAMBDA c : c.name = "TaskMarker")
    IN  IF node.name # "Task" \/ taskMarkers = <<>> THEN <<>>
        ELSE LET taskMarker == taskMarkers[1]
                 rangeStart == IF listMarks # <<>> THEN listMarks[1].from
                               ELSE taskMarker.from
                 text == sliceDoc(v.doc, taskMarker.from, taskMarker.to)
                 checked == \E i \in 1..Len(text) : text[i] \in {"x", "X"}
             IN  (IF listMarks # <<>>
                  THEN <<Req(listMarks[1].from, listMarks[1].to + 1, hideDecoration)>>
                  ELSE <<>>)
                 \o (IF isCursorInRange(v, rangeStart, taskMarker.to - 1) THEN <<>>
                     ELSE <<Req(taskMarker.from, taskMarker.to,
                                checkboxDecoration(checked, taskMarker.from))>>)

\* Task list: lines 548-587.  parent is node.node.parent, or the record
\* with name "" for the root.
TaskRequests(v, node, parent) ==
    LET listMarks == IF parent.name = "ListItem"
                     THEN ChildrenNamed(parent, "ListMark") ELSE <<>>
        taskMarkers == ChildrenNamed(node, "TaskMarker")
    IN  IF node.name # "Task" \/ taskMarkers = <<>> THEN <<>>
        ELSE LET taskMarker == taskMarkers[1]
                 rangeStart == IF listMarks # <<>> THEN listMarks[1].from
                               ELSE taskMarker.from
                 cursorInMarker == isCursorInRange(v, rangeStart, taskMarker.to - 1)
                 text == sliceDoc(v.doc, taskMarker.from, taskMarker.to)
                 checked == includes(text, "x") \/ includes(text, "X")
             IN  IF cursorInMarker THEN <<>>
                 ELSE (IF listMarks # <<>>
                       THEN <<Req(listMarks[1].from, listMarks[1].to + 1, hideDecoration)>>
                       ELSE <<>>)
                      \o <<Req(taskMarker.from, taskMarker.to,
                               checkboxDecoration(checked, taskMarker.from))>>

\* The callback enter(node) of tree.iterate: lines 393-588.
enter(v, node, parent) ==
    HeadingRequests(v, node)
    \o EmphasisRequests(v, node)
    \o StrongRequests(v, node)
    \o InlineCodeRequests(v, node)
    \o StrikethroughRequests(v, node)
    \o ListItemRequests(v, node)
    \o TaskRequests(v, node, parent)

NoParent == N("", 0, 0, <<>>)

RECURSIVE iterateWholeTree(_, _, _, _, _)
\* tree.iterate without from and to: enter is called on every node.
iterateWholeTree(v, node, parent, f, t) ==
    LET RECURSIVE kids(_)
        kids(cs) == IF cs = <<>> THEN <<>>
                    ELSE iterateWholeTree(v, Head(cs), node, f, t) \o kids(Tail(cs))
    IN  enter(v, node, parent) \o kids(node.children)

RECURSIVE iterate(_, _, _, _, _)
\* tree.iterate({from, to, enter}): enter is called, in document order, on
\* every node whose span touches [from, to]; the children of a node that is
\* not entered are not visited.
iterate(v, node, parent, f, t) ==
    IF node.from <= t /\ node.to >= f
    THEN LET RECURSIVE kids(_)
             kids(cs) == IF cs = <<>> THEN <<>>
                         ELSE iterate(v, Head(cs), node, f, t) \o kids(Tail(cs))
         IN  enter(v, node, parent) \o kids(node.children)
    ELSE <<>>

RECURSIVE Collect(_, _)
\* The array `decos` after the loop over view.visibleRanges (389-590).
Collect(v, ranges) ==
    IF ranges = <<>> THEN <<>>
    ELSE iterate(v, v.tree, NoParent, Head(ranges).from, Head(ranges).to)
         \o Collect(v, Tail(ranges))

\* The comparator of decos.sort (593): a.from - b.from || a.to - b.to.
compare(a, b) == IF a.from # b.from THEN a.from - b.from ELSE a.to - b.to

RECURSIVE InsertSorted(_, _)
\* x placed after every element of the sorted sequence s that does not
\* compare greater than it.
InsertSorted(s, x) ==
    IF s = <<>> THEN <<x>>
    ELSE IF compare(s[Len(s)], x) <= 0 THEN Append(s, x)
    ELSE Append(InsertSorted(SubSeq(s, 1, Len(s) - 1), x), s[Len(s)])

RECURSIVE SortFrom(_, _)
SortFrom(done, rest) ==
    IF rest = <<>> THEN done
    ELSE SortFrom(InsertSorted(done, Head(rest)), Tail(rest))

\* Array.prototype.sort with `compare` (593): a stable sort.
sort(s) == SortFrom(<<>>, s)

\* The commit loop with the test `from <= to`.
commitAllowEmpty(s) == SelectSeq(s, LAMBDA r : r.from <= r.to)

\* The commit loop (596-600): the sequence of builder.add calls.
commit(s) == SelectSeq(s, LAMBDA r : r.from < r.to)

buildDecorations(v) == commit(sort(Collect(v, v.visibleRanges)))

(***************************************************************************)
(* The checkbox widget (hideMarkers.ts 313-339).  A widget value and the   *)
(* closure toDOM registers are both [checked, pos]: the closure reads      *)
(* this.checked and this.pos of the widget it was created for.             *)
(***************************************************************************)

Widget(ck, p) == [checked |-> ck, pos |-> p]

\* eq comparing the checked state only.
eqCheckedOnly(this, other) == this.checked = other.checked

\* CheckboxWidget.eq (316-318)
eq(this, other) == this.checked = other.checked /\ this.pos = other.pos

\* The change with the branches of newText exchanged.
toggleChangeSameState(this) ==
    [from |-> this.pos, to |-> this.pos + 3,
     insert |-> IF this.checked THEN <<"[", "x", "]">> ELSE <<"[", " ", "]">>]

\* The change of a listener that writes the capital letter when it checks
\* the box.
toggleChangeUpperCase(this) ==
    [from |-> this.pos, to |-> this.pos + 3,
     insert |-> IF this.checked THEN <<"[", " ", "]">> ELSE <<"[", "X", "]">>]

\* The change the mousedown listener dispatches (327-333).
toggleChange(this) ==
    [from |-> this.pos, to |-> this.pos + 3,
     insert |-> IF this.checked THEN <<"[", " ", "]">> ELSE <<"[", "x", "]">>]

\* The checkbox widgets of a decoration set.
CheckboxesOf(decos) ==
    {Widget(decos[i].deco.checked, decos[i].deco.pos) :
        i \in {j \in 1..Len(decos) : decos[j].deco.cls = "cm-checkbox"}}

\* The closures on screen after the view has drawn `decos`: the DOM of an
\* old widget that is eq to a new one is kept, with the closure it holds;
\* every other new widget gets a fresh DOM from toDOM.
SyncDOM(old, decos) ==
    LET new == CheckboxesOf(decos)
    IN  {h \in old : \E w \in new : eq(h, w)}
        \cup {w \in new : ~\E h \in old : eq(h, w)}

(***************************************************************************)
(* The view plugin (hideMarkers.ts 609-626) and the host's transactions.   *)
(***************************************************************************)

View(d, tr, sel, vis) ==
    [doc |-> d, tree |-> tr, selection |-> sel, visibleRanges |-> vis]

Flags(dc, ss, vc) == [docChanged |-> dc, selectionSet |-> ss, viewportChanged |-> vc]

\* update that rebuilds on document changes only.
updateOnDocChangeOnly(u, v, old) ==
    IF u.docChanged THEN buildDecorations(v) ELSE old

\* update with the array `decos` kept from one build to the next.
updateAccumulating(u, v, old) ==
    IF u.docChanged \/ u.selectionSet \/ u.viewportChanged
    THEN old \o buildDecorations(v)
    ELSE old

\* update(update) (617-621): the value of this.decorations afterwards.
update(u, v, old) ==
    IF u.docChanged \/ u.selectionSet \/ u.viewportChanged
    THEN buildDecorations(v)
    ELSE old

NoClosure == Widget(FALSE, -1)

\* The documents the decoration builder is exercised on: every construct
\* kind, a heading followed by a second line, a list marker at the very end
\* of the document, an ordered item numbered with ")", an empty list item
\* followed by a line break, and the strong span at [10, 20) of spec
\* section 8.
BuildDocs ==
    { <<"#", "#", " ", "a", "\n", "b">>,
      <<"a", " ", "*", "*", "b", "*", "*">>,
      <<"*", "a", "*", " ", BQ, "b", BQ>>,
      <<"~", "~", "a", "~", "~", "\n", "#">>,
      <<"-", " ", "[", " ", "]", " ", "a", "\n", "-", " ", "b">>,
      <<"1", ".", " ", "[", "x", "]", " ", "a", "\n", "\n", "-">>,
      <<"-", " ", "[", "X", "]", " ", "a">>,
      <<"1", ".", " ", "a", "\n", "#", " ", "*", "b", "*">>,
      <<"2", ")", " ", "a">>,
      <<"-", "\n", "b">>,
      <<"a", "a", "a", "a", "a", "a", "a", "a", "a", "a",
        "*", "*", "b", "b", "b", "b", "b", "b", "*", "*">> }

\* The documents the editing sessions start from.
EditDocs ==
    { <<"-", " ", "[", " ", "]", " ", "a">>,
      <<"-", " ", "[", "X", "]", " ", "a">>,
      <<"a", "\n", "-", " ", "[", " ", "]", " ", "b">>,
      <<"#", " ", "a">> }

\* The characters the user types.
EditChars == {"x"}

\* The selections one gesture away from sel in a document of length n: an
\* end of the single range moved by one character, a second caret added
\* to a single caret, or one of two carets removed.
Gestures(sel, n) ==
    IF Len(sel) = 1
    THEN LET a == sel[1].from
             b == sel[1].to
         IN  { <<R(x, b)>> : x \in {a - 1, a + 1} \cap 0..b }
             \cup { <<R(a, y)>> : y \in {b - 1, b + 1} \cap a..n }
             \cup (IF a = b
                   THEN { <<R(q, q), R(a, a)>> : q \in 0..(a - 1) }
                        \cup { <<R(a, a), R(q, q)>> : q \in (a + 1)..n }
                   ELSE {})
    ELSE { <<sel[i]>> : i \in 1..Len(sel) }

\* The visible ranges the host reports for d: the whole document, one line,
\* or two lines.
Viewports(d) ==
    LET ls == Lines(d)
    IN  { <<R(0, Len(d))>> }
        \cup { <<ls[i]>> : i \in 1..Len(ls) }
        \cup UNION { { <<ls[i], ls[j]>> : j \in (i + 1)..Len(ls) } : i \in 1..Len(ls) }

\* Trees a host can hand to the builder that the GFM parser does not
\* produce for the text: a strong span with one mark, a strong span without
\* content, a heading without a HeaderMark, a code span without CodeMarks.
MalformedInputs ==
    { [doc  |-> <<"*", "*", "b", "\n", "\n", "#">>,
       tree |-> N("Document", 0, 6,
                  << N("Paragraph", 0, 3,
                       << N("StrongEmphasis", 0, 3,
                            <<N("EmphasisMark", 0, 2, <<>>)>>) >>),
                     N("ATXHeading1", 5, 6, <<N("HeaderMark", 5, 6, <<>>)>>) >>)],
      [doc  |-> <<"*", "*", "*", "*", " ", "a">>,
       tree |-> N("Document", 0, 6,
                  << N("Paragraph", 0, 6,
                       << N("StrongEmphasis", 0, 4,
                            << N("EmphasisMark", 0, 2, <<>>),
                               N("EmphasisMark", 2, 4, <<>>) >>) >>) >>)],
      [doc  |-> <<"#", " ", "a">>,
       tree |-> N("Document", 0, 3, <<N("ATXHeading1", 0, 3, <<>>)>>)],
      [doc  |-> <<BQ, "a">>,
       tree |-> N("Document", 0, 2,
                  << N("Paragraph", 0, 2,
                       <<N("InlineCode", 0, 2, <<>>)>>) >>)] }

\* Blocks that run across line breaks: a paragraph of three lines whose
\* emphasis spans its soft line breaks, and a task item whose text
\* continues on a second, indented line (the Task node covers both lines).
MultiLineInputs ==
    { [doc  |-> <<"*", "a", "\n", "b", "\n", "c", "*", " ", "d">>,
       tree |-> N("Document", 0, 9,
                  << N("Paragraph", 0, 9,
                       << N("Emphasis", 0, 7,
                            << N("EmphasisMark", 0, 1, <<>>),
                               N("EmphasisMark", 6, 7, <<>>) >>) >>) >>)],
      [doc  |-> <<"-", " ", "[", " ", "]", " ", "a", "\n", " ", " ", "b">>,
       tree |-> N("Document", 0, 11,
                  << N("BulletList", 0, 11,
                       << N("ListItem", 0, 11,
                            << N("ListMark", 0, 1, <<>>),
                               N("Task", 2, 11,
                                 <<N("TaskMarker", 2, 5, <<>>)>>) >>) >>) >>)] }

\* The inputs of the builder: each document of BuildDocs with its parse
\* tree, the multi-line paragraph, and the malformed trees.
BuildInputs ==
    {[doc |-> d, tree |-> Parse(d)] : d \in BuildDocs}
        \cup MultiLineInputs \cup MalformedInputs

(***************************************************************************)
(* The theme registry (registry.ts 5-16) and the hook's helpers            *)
(* (useTheme.ts 11-21, 44-50).  A theme object is the record of its id.    *)
(***************************************************************************)
THEMES == << [id |-> "midnight"], [id |-> "linen"] >>

DEFAULT_THEME_ID == THEMES[1].id

\* localStorage.getItem gives null, and dataset.theme is undefined.
NoItem == "null"

\* THEMES.findIndex(t => t.id === id): the 0-based index, -1 when absent.
findIndex(id) ==
    LET S == {i \in 1..Len(THEMES) : THEMES[i].id = id}
    IN  IF S = {} THEN -1 ELSE (CHOOSE i \in S : \A j \in S : i <= j) - 1

\* THEMES.find(t => t.id === id) ?? THEMES[0]
getThemeById(id) ==
    IF findIndex(id) = -1 THEN THEMES[1] ELSE THEMES[findIndex(id) + 1]

\* resolveStoredThemeId with the stored item as its input.
resolveStoredThemeId(stored) ==
    getThemeById(IF stored = NoItem THEN DEFAULT_THEME_ID ELSE stored).id

\* cycleTheme without the wrap: the index saturates at the last theme.
nextThemeNoWrap(id) ==
    THEMES[Min(findIndex(id) + 1, Len(THEMES) - 1) + 1]

\* nextTheme of cycleTheme (45-48) for the themeId the callback closes over.
nextTheme(id) == THEMES[((findIndex(id) + 1) % Len(THEMES)) + 1]

\* No run of cycleTheme calls is in progress.
NoRun == [origin |-> NoItem, count |-> 0, batched |-> FALSE]

\* No effect or timer has used a view.
NoOp == [by |-> "none", view |-> 0, live |-> TRUE]

\* The hook at rest on the default theme: rendered, effect run.
ThemeSettled ==
    /\ themeId = DEFAULT_THEME_ID
    /\ theme = getThemeById(DEFAULT_THEME_ID)
    /\ updates = <<>>
    /\ effectDue = FALSE
    /\ storage = DEFAULT_THEME_ID
    /\ rootTheme = DEFAULT_THEME_ID
    /\ cycleRun = NoRun

\* The component mounted with its one view, all effects and timers run.
EditorMounted ==
    /\ containerRef = TRUE
    /\ editorViewRef = 1
    /\ views = <<"live">>
    /\ timers = 0
    /\ kind = "dark"
    /\ effects = <<>>
    /\ cleanupOf = 1
    /\ lastOp = NoOp

\* The state after `new EditorView({parent, state})` on one of inputs: the
\* caret at 0, the whole document in the viewport, and the plugin
\* constructed (613-615).
ViewOn(inputs) ==
    /\ \E in \in inputs : doc = in.doc /\ tree = in.tree
    /\ selection = <<R(0, 0)>>
    /\ visibleRanges = <<R(0, Len(doc))>>
    /\ decorations = buildDecorations(View(doc, tree, selection, visibleRanges))
    /\ handlers = SyncDOM({}, decorations)
    /\ fired = NoClosure
    /\ edits = 0

\* The application at rest around that view: the theme hook settled and
\* the component mounted.
InitOn(inputs) ==
    /\ ViewOn(inputs)
    /\ ThemeSettled
    /\ EditorMounted

Init == InitOn({[doc |-> d, tree |-> Parse(d)] : d \in EditDocs})

InitBuild == InitOn(BuildInputs)

\* Deliver with the replacement decorations applied to the text: the
\* characters under a committed replacement are removed from the document.
DeliverRewritingSource(d, tr, sel, vis, u) ==
    LET ds == update(u, View(d, tr, sel, vis), decorations)
        kept == {k \in 1..Len(d) :
                    ~\E i \in 1..Len(ds) :
                        /\ ds[i].deco.family = "replace"
                        /\ ds[i].from < k /\ k <= ds[i].to}
        RECURSIVE text(_)
        text(k) == IF k > Len(d) THEN <<>>
                   ELSE (IF k \in kept THEN <<d[k]>> ELSE <<>>) \o text(k + 1)
    IN  /\ doc' = text(1)
        /\ tree' = tr
        /\ selection' = sel
        /\ visibleRanges' = vis
        /\ decorations' = ds
        /\ handlers' = SyncDOM(handlers, ds)
        /\ UNCHANGED <<themeVars, editorVars>>

\* The host applies a transaction and delivers the update u to the plugin;
\* the view then redraws the widgets.
Deliver(d, tr, sel, vis, u) ==
    /\ doc' = d
    /\ tree' = tr
    /\ selection' = sel
    /\ visibleRanges' = vis
    /\ decorations' = update(u, View(d, tr, sel, vis), decorations)
    /\ handlers' = SyncDOM(handlers, decorations')
    /\ UNCHANGED <<themeVars, editorVars>>

\* The user moves the caret or selects text.
SetSelection ==
    \E sel \in Gestures(selection, Len(doc)) :
        /\ Deliver(doc, tree, sel, visibleRanges, Flags(FALSE, TRUE, FALSE))
        /\ fired' = NoClosure
        /\ UNCHANGED edits

\* The user scrolls.
Scroll ==
    \E vis \in Viewports(doc) :
        /\ vis # visibleRanges
        /\ Deliver(doc, tree, selection, vis, Flags(FALSE, FALSE, TRUE))
        /\ fired' = NoClosure
        /\ UNCHANGED edits

\* d with the text of [f, t) replaced by ins.
Splice(d, f, t, ins) == SubSeq(d, 1, f) \o ins \o SubSeq(d, t + 1, Len(d))

\* The user types the character c at the caret.
TypeChar ==
    \E c \in EditChars :
        /\ edits < MaxEdits
        /\ Len(selection) = 1
        /\ selection[1].from = selection[1].to
        /\ LET p == selection[1].from
               d == Splice(doc, p, p, <<c>>)
               vis == <<R(0, Len(d))>>
           IN  Deliver(d, Parse(d), <<R(p + 1, p + 1)>>, vis,
                       Flags(TRUE, TRUE, vis # visibleRanges))
        /\ fired' = NoClosure
        /\ edits' = edits + 1

\* The user deletes the character before the caret.
DeleteBackward ==
    /\ edits < MaxEdits
    /\ Len(selection) = 1
    /\ selection[1].from = selection[1].to
    /\ selection[1].from > 0
    /\ LET p == selection[1].from
           d == Splice(doc, p - 1, p, <<>>)
           vis == <<R(0, Len(d))>>
       IN  Deliver(d, Parse(d), <<R(p - 1, p - 1)>>, vis,
                   Flags(TRUE, TRUE, vis # visibleRanges))
    /\ fired' = NoClosure
    /\ edits' = edits + 1

\* A position of the selection mapped through the replacement of [f, t) by
\* text of the same length: positions inside the replaced text move to f.
MapPos(p, f, t) == IF p > f /\ p < t THEN f ELSE p

\* The listener without e.preventDefault(): the press also places the
\* caret at the widget, and the transaction carries the new selection.
ClickByMovingCaret(h) ==
    LET ch == toggleChange(h)
        d == Splice(doc, ch.from, ch.to, ch.insert)
    IN  /\ fired' = h
        /\ UNCHANGED edits
        /\ IF ch.from >= 0 /\ ch.to <= Len(doc)
           THEN Deliver(d, Parse(d), <<R(h.pos, h.pos)>>,
                        visibleRanges, Flags(TRUE, TRUE, FALSE))
           ELSE UNCHANGED <<doc, tree, selection, visibleRanges,
                            decorations, handlers, themeVars, editorVars>>

\* The mousedown listener of the closure h runs (327-333) and the host
\* applies the change it dispatches.  A change that reaches past the end of
\* the document is refused by the host: nothing is dispatched.
ClickBy(h) ==
    LET ch == toggleChange(h)
        d == Splice(doc, ch.from, ch.to, ch.insert)
    IN  /\ fired' = h
        /\ UNCHANGED edits
        /\ IF ch.from >= 0 /\ ch.to <= Len(doc)
           THEN Deliver(d, Parse(d),
                        [i \in 1..Len(selection) |->
                            R(MapPos(selection[i].from, ch.from, ch.to),
                              MapPos(selection[i].to, ch.from, ch.to))],
                        visibleRanges, Flags(TRUE, FALSE, FALSE))
           ELSE UNCHANGED <<doc, tree, selection, visibleRanges,
                            decorations, handlers, themeVars, editorVars>>

\* The user presses the mouse button on a checkbox on screen.
ClickCheckbox == \E h \in handlers : ClickBy(h)

\* The user clicks where the caret already is: the transaction sets the
\* selection to the value it has, and the update carries selectionSet.
Reselect ==
    /\ Deliver(doc, tree, selection, visibleRanges, Flags(FALSE, TRUE, FALSE))
    /\ fired' = NoClosure
    /\ UNCHANGED edits

\* A transaction that changes neither document, selection nor viewport
\* (the theme reconfigure of MarkdownEditor.tsx 95-99, a focus change).
OtherUpdate ==
    /\ Deliver(doc, tree, selection, visibleRanges, Flags(FALSE, FALSE, FALSE))
    /\ fired' = NoClosure
    /\ UNCHANGED edits

Next ==
    \/ SetSelection
    \/ Scroll
    \/ TypeChar
    \/ DeleteBackward
    \/ ClickCheckbox
    \/ Reselect
    \/ OtherUpdate

Spec == Init /\ [][Next]_vars

\* The builder alone: the documents of BuildDocs under every selection and
\* viewport, without edits.
NextBuild ==
    \/ SetSelection
    \/ Scroll
    \/ Reselect
    \/ OtherUpdate

SpecBuild == InitBuild /\ [][NextBuild]_vars

(***************************************************************************)
(* The mousedown listener on its own (hideMarkers.ts 327-333): a closure   *)
(* created by toDOM for a widget of one revision, run against the          *)
(* document of the next revision.                                          *)
(***************************************************************************)

\* The revisions one typing transaction away from d.
Revisions(d) ==
    {Splice(d, p, p, <<c>>) : p \in 0..Len(d), c \in EditChars}
        \cup {Splice(d, p - 1, p, <<>>) : p \in 1..Len(d)}

\* The closures toDOM creates for the checkboxes of d when the caret is at
\* the end of the document.
ClosuresOn(d) ==
    CheckboxesOf(buildDecorations(
        View(d, Parse(d), <<R(Len(d), Len(d))>>, <<R(0, Len(d))>>)))

InitListener ==
    \E d0 \in EditDocs : \E d1 \in Revisions(d0) :
        /\ doc = d1
        /\ tree = Parse(d1)
        /\ selection = <<R(Len(d1), Len(d1))>>
        /\ visibleRanges = <<R(0, Len(d1))>>
        /\ decorations = buildDecorations(View(doc, tree, selection, visibleRanges))
        /\ handlers = ClosuresOn(d0)
        /\ fired = NoClosure
        /\ edits = 1
        /\ ThemeSettled
        /\ EditorMounted

NextListener ==
    \/ ClickCheckbox
    \/ SetSelection

SpecListener == InitListener /\ [][NextListener]_vars

(***************************************************************************)
(* Incremental parsing.  The tree syntaxTree() returns covers the document *)
(* as far as the parser has come; when the parse advances afterwards the   *)
(* host delivers an update that changes neither document, selection nor    *)
(* viewport (forceParsing in MarkdownEditor.tsx 59 dispatches one).        *)
(***************************************************************************)

\* The tree of d when the parser has covered its first k lines.
PartialParse(d, k) ==
    LET ls == Lines(d)
    IN  IF k >= Len(ls) THEN Parse(d)
        ELSE N("Document", 0, IF k = 0 THEN 0 ELSE ls[k].to,
               ParseBlocks(d, SubSeq(ls, 1, k)))

\* The trees the parser passes through on its way to Parse(d).
ParseStages(d) == {PartialParse(d, k) : k \in 0..Len(Lines(d))}

\* The documents of BuildDocs that have more than one line.
ParseDocs == {d \in BuildDocs : Len(Lines(d)) >= 2}

InitParse == InitOn(UNION {{[doc |-> d, tree |-> tr] : tr \in ParseStages(d)} : d \in ParseDocs})

\* The parser covers more of the document; the update carries no flag.
ParseAdvance ==
    \E tr \in ParseStages(doc) :
        /\ tr.to > tree.to
        /\ Deliver(doc, tr, selection, visibleRanges, Flags(FALSE, FALSE, FALSE))
        /\ fired' = NoClosure
        /\ UNCHANGED edits

NextParse ==
    \/ SetSelection
    \/ Scroll
    \/ Reselect
    \/ OtherUpdate
    \/ ParseAdvance

SpecParse == InitParse /\ [][NextParse]_vars

(***************************************************************************)
(* Vocabulary of the properties                                            *)
(***************************************************************************)

CurView == View(doc, tree, selection, visibleRanges)

RECURSIVE NodesOf(_)
\* The nodes of the subtree rooted at node.
NodesOf(node) ==
    {node} \cup UNION {NodesOf(node.children[i]) : i \in 1..Len(node.children)}

\* The nodes the traversal enters: those that touch a visible range.
Entered ==
    {n \in NodesOf(tree) :
        \E i \in 1..Len(visibleRanges) :
            n.from <= visibleRanges[i].to /\ n.to >= visibleRanges[i].from}

\* Some selection range touches [f, t], both ends included.
Touched(f, t) ==
    \E i \in 1..Len(selection) : selection[i].from <= t /\ selection[i].to >= f

\* The offsets at which the selection has a caret.
Carets == {selection[i].from : i \in {j \in 1..Len(selection) : selection[j].from = selection[j].to}}

\* A replacement (respectively a style annotation) is committed over
\* exactly [f, t).
Replaced(f, t) ==
    \E i \in 1..Len(decorations) :
        /\ decorations[i].from = f /\ decorations[i].to = t
        /\ decorations[i].deco.family = "replace"

Hidden(f, t) ==
    \E i \in 1..Len(decorations) :
        /\ decorations[i].from = f /\ decorations[i].to = t
        /\ decorations[i].deco = hideDecoration

Styled(f, t) ==
    \E i \in 1..Len(decorations) :
        /\ decorations[i].from = f /\ decorations[i].to = t
        /\ decorations[i].deco.family = "mark"

\* The mark children of a span-scoped node.
MarkNameOf(nm) ==
    IF nm = "InlineCode" THEN "CodeMark"
    ELSE IF nm = "Strikethrough" THEN "StrikethroughMark"
    ELSE "EmphasisMark"

SpanKinds == {"Emphasis", "StrongEmphasis", "Strikethrough", "InlineCode"}

\* The entered span-scoped nodes that have two mark children.
Spans ==
    {n \in Entered : n.name \in SpanKinds
                     /\ Len(ChildrenNamed(n, MarkNameOf(n.name))) >= 2}

FirstMark(n) == ChildrenNamed(n, MarkNameOf(n.name))[1]
LastMark(n) ==
    LET ms == ChildrenNamed(n, MarkNameOf(n.name)) IN ms[Len(ms)]

(***************************************************************************)
(* C1.  The committed decorations are exactly the accumulated requests     *)
(* with from < to, in ascending (from, to) order, requests that tie on     *)
(* (from, to) in the order they were pushed: the request pushed k-th       *)
(* stands at the position given by the number of kept requests that are    *)
(* smaller, or equal and pushed earlier.                                   *)
(***************************************************************************)
C1_CommitIsStableSortOfKept ==
    LET acc == Collect(CurView, visibleRanges)
        keep == {k \in 1..Len(acc) : acc[k].from < acc[k].to}
        before(j, k) ==
            \/ acc[j].from < acc[k].from
            \/ acc[j].from = acc[k].from /\ acc[j].to < acc[k].to
            \/ acc[j].from = acc[k].from /\ acc[j].to = acc[k].to /\ j < k
        rank(k) == Cardinality({j \in keep : before(j, k)}) + 1
    IN  /\ Len(decorations) = Cardinality(keep)
        /\ \A k \in keep : decorations[rank(k)] = acc[k]

\* A rebuild in which a request was dropped, two kept requests tie on
\* (from, to), and the push order was not the committed order.
C1_Witness ==
    LET acc == Collect(CurView, visibleRanges)
    IN  /\ \E k \in 1..Len(acc) : acc[k].from >= acc[k].to
        /\ \E i \in 1..Len(decorations) : \E j \in 1..Len(decorations) :
              /\ i < j
              /\ decorations[i].from = decorations[j].from
              /\ decorations[i].to = decorations[j].to
              /\ decorations[i].deco # decorations[j].deco
        /\ \E k \in 1..(Len(acc) - 1) : compare(acc[k], acc[k + 1]) > 0

(***************************************************************************)
(* C2.  For an entered Emphasis, StrongEmphasis, Strikethrough or          *)
(* InlineCode node with two mark children, both marks are replaced by the  *)
(* hide decoration when no selection range touches the node, and neither   *)
(* is when some range, main or secondary, touches it.                      *)
(***************************************************************************)
C2_SpanMarksHiddenIffUntouched ==
    \A n \in Spans :
        LET f == FirstMark(n)
            l == LastMark(n)
        IN  IF Touched(n.from, n.to)
            THEN ~Replaced(f.from, f.to) /\ ~Replaced(l.from, l.to)
            ELSE Hidden(f.from, f.to) /\ Hidden(l.from, l.to)

\* Two carets, the first away from a span and the second touching its end:
\* the marks of that span are shown.
C2_Witness ==
    /\ Len(selection) = 2
    /\ \E n \in Spans :
          /\ selection[1].to < n.from
          /\ selection[2].from = n.to
          /\ ~Replaced(FirstMark(n).from, FirstMark(n).to)

Headings ==
    {n \in Entered : headingMatch(n.name) \in 1..6
                     /\ ChildrenNamed(n, "HeaderMark") # <<>>}

\* The first offset of the source line that contains offset p, and the
\* offset of its end (the line break, or the end of the document).
LineStart(p) ==
    LET S == {k \in 0..p : k = 0 \/ doc[k] = "\n"}
    IN  CHOOSE k \in S : \A j \in S : j <= k

LineEnd(p) ==
    LET S == {k \in p..Len(doc) : k = Len(doc) \/ doc[k + 1] = "\n"}
    IN  CHOOSE k \in S : \A j \in S : k <= j

(***************************************************************************)
(* C4.  The HeaderMark of an entered ATX heading is replaced if and only   *)
(* if no selection range touches the source line of the heading's start,   *)
(* both ends of the line included.                                         *)
(***************************************************************************)
C4_HeaderMarkHiddenIffLineUntouched ==
    \A n \in Headings :
        LET m == ChildrenNamed(n, "HeaderMark")[1]
        IN  Hidden(m.from, Min(m.to + 1, n.to))
            <=> ~Touched(LineStart(n.from), LineEnd(n.from))

\* The caret at the first offset of the line after a heading: the
\* HeaderMark is replaced.
C4_Witness ==
    \E n \in Headings :
        /\ selection = <<R(LineEnd(n.from) + 1, LineEnd(n.from) + 1)>>
        /\ LineEnd(n.from) < Len(doc)
        /\ Hidden(ChildrenNamed(n, "HeaderMark")[1].from,
                  Min(ChildrenNamed(n, "HeaderMark")[1].to + 1, n.to))

\* A style annotation covers [f, t).
Covered(f, t) ==
    \E i \in 1..Len(decorations) :
        /\ decorations[i].from <= f /\ decorations[i].to >= t
        /\ decorations[i].deco.family = "mark"

(***************************************************************************)
(* C5.  As claimed: when a selection range touches a span-scoped           *)
(* construct (two marks around a content sub-range), each of its marker    *)
(* sub-ranges carries a style annotation and no replacement; when none     *)
(* does, each is replaced.                                                 *)
(***************************************************************************)
C5_VisibleMarkersStyled ==
    \A n \in {m \in Spans : FirstMark(m).to < LastMark(m).from} :
        LET f == FirstMark(n)
            l == LastMark(n)
        IN  IF Touched(n.from, n.to)
            THEN /\ Covered(f.from, f.to) /\ ~Replaced(f.from, f.to)
                 /\ Covered(l.from, l.to) /\ ~Replaced(l.from, l.to)
            ELSE Replaced(f.from, f.to) /\ Replaced(l.from, l.to)

\* The style annotations of a decoration set.
MarksOf(decos) == SelectSeq(decos, LAMBDA r : r.deco.family = "mark")

(***************************************************************************)
(* C6.  Content styling does not depend on the selection: the style        *)
(* annotations committed are those committed, for the same document, tree  *)
(* and visible ranges, under the caret at 0 and under the selection of     *)
(* the whole document.                                                     *)
(***************************************************************************)
C6_StyleIndependentOfSelection ==
    \A ref \in {<<R(0, 0)>>, <<R(0, Len(doc))>>} :
        MarksOf(decorations)
            = MarksOf(buildDecorations(View(doc, tree, ref, visibleRanges)))

\* A selection other than the two references under which something is
\* styled and the replacements differ from those of both references.
C6_Witness ==
    /\ MarksOf(decorations) # <<>>
    /\ \A ref \in {<<R(0, 0)>>, <<R(0, Len(doc))>>} :
          /\ selection # ref
          /\ decorations # buildDecorations(View(doc, tree, ref, visibleRanges))

\* The entered Task nodes that have a TaskMarker child, each with its
\* parent ListItem: [item, task].
Tasks ==
    UNION { { [item |-> li, task |-> li.children[i]] :
                i \in {j \in 1..Len(li.children) :
                          /\ li.children[j].name = "Task"
                          /\ li.children[j] \in Entered
                          /\ ChildrenNamed(li.children[j], "TaskMarker") # <<>>} }
            : li \in {n \in NodesOf(tree) : n.name = "ListItem"} }

TaskMarkerOf(t) == ChildrenNamed(t.task, "TaskMarker")[1]

\* The first offset of the range whose touch reveals the task's markers.
RangeStartOf(t) ==
    IF ChildrenNamed(t.item, "ListMark") # <<>>
    THEN ChildrenNamed(t.item, "ListMark")[1].from
    ELSE TaskMarkerOf(t).from

CheckboxAt(f, t) ==
    \E i \in 1..Len(decorations) :
        /\ decorations[i].from = f /\ decorations[i].to = t
        /\ decorations[i].deco.cls = "cm-checkbox"

(***************************************************************************)
(* C7.  As claimed: every entered Task with a TaskMarker has the checkbox  *)
(* widget committed over the TaskMarker range, whatever the selection.     *)
(***************************************************************************)
C7_Original ==
    \A t \in Tasks : CheckboxAt(TaskMarkerOf(t).from, TaskMarkerOf(t).to)

(***************************************************************************)
(* C7, amended.  The checkbox widget is committed over the TaskMarker      *)
(* range of an entered Task if and only if no selection range touches the  *)
(* range from the start of the item's ListMark (of the TaskMarker when the *)
(* item has none) to the offset before the end of the TaskMarker.          *)
(***************************************************************************)
C7_CheckboxIffMarkerUntouched ==
    \A t \in Tasks :
        CheckboxAt(TaskMarkerOf(t).from, TaskMarkerOf(t).to)
        <=> ~Touched(RangeStartOf(t), TaskMarkerOf(t).to - 1)

\* A rebuild with the caret at the end offset of a task marker: the
\* checkbox is committed.
C7_Witness ==
    \E t \in Tasks :
        /\ selection = <<R(TaskMarkerOf(t).to, TaskMarkerOf(t).to)>>
        /\ CheckboxAt(TaskMarkerOf(t).from, TaskMarkerOf(t).to)

\* The text a toggle leaves at the marker: "[ ]" after a click on a checked
\* box, "[x]" after a click on an unchecked one.
Toggled(ck) == IF ck THEN <<"[", " ", "]">> ELSE <<"[", "x", "]">>

(***************************************************************************)
(* C8.  A step in which the closure of a checkbox runs is taken by the     *)
(* closure of a widget committed over [p, p + 3); it replaces exactly      *)
(* [p, p + 3) by "[x]" when the widget is unchecked and by "[ ]" when it   *)
(* is checked: the length of the document and every character outside      *)
(* [p, p + 3) are unchanged.                                               *)
(***************************************************************************)
C8_ToggleReplacesMarkerOnly ==
    [][fired' # NoClosure =>
          /\ \E i \in 1..Len(decorations) :
                decorations[i] = Req(fired'.pos, fired'.pos + 3,
                                     checkboxDecoration(fired'.checked, fired'.pos))
          /\ Len(doc') = Len(doc)
          /\ SubSeq(doc', fired'.pos + 1, fired'.pos + 3) = Toggled(fired'.checked)
          /\ \A k \in 1..Len(doc) :
                (k <= fired'.pos \/ k > fired'.pos + 3) => doc'[k] = doc[k]
    ]_vars

\* The closure of an unchecked box has just run and the marker reads "[x]".
C8_Witness ==
    /\ fired # NoClosure
    /\ ~fired.checked
    /\ SubSeq(doc, fired.pos + 1, fired.pos + 3) = <<"[", "x", "]">>

(***************************************************************************)
(* C9.  Every checkbox closure on screen, hence every closure that fires,  *)
(* holds the (pos, checked) of a TaskMarker of the current document: the   *)
(* tree has a TaskMarker at [pos, pos + 3), the text there is a task       *)
(* marker, and checked tells whether it is ticked.                         *)
(***************************************************************************)
C9_ClosuresAreCurrent ==
    \A h \in handlers :
        /\ h.pos >= 0 /\ h.pos + 3 <= Len(doc)
        /\ SubSeq(doc, h.pos + 1, h.pos + 3)
              \in {<<"[", " ", "]">>, <<"[", "x", "]">>, <<"[", "X", "]">>}
        /\ h.checked <=> doc[h.pos + 2] \in {"x", "X"}
        /\ \E n \in NodesOf(tree) :
              n.name = "TaskMarker" /\ n.from = h.pos /\ n.to = h.pos + 3

\* A closure has fired at an offset at which no document the editor was
\* opened on has a task marker: an edit moved the marker before the click.
C9_Witness ==
    /\ edits >= 1
    /\ fired # NoClosure
    /\ \A d \in EditDocs :
          \A n \in NodesOf(Parse(d)) : n.name = "TaskMarker" => n.from # fired.pos

(***************************************************************************)
(* C10.  The plugin builds at construction, and after every update in      *)
(* which the document, the selection or the visible ranges changed the     *)
(* decoration set is buildDecorations of the updated view.                 *)
(***************************************************************************)
C10_RebuiltOnEveryFlaggedUpdate ==
    /\ decorations = buildDecorations(CurView)
    /\ [][(doc' # doc \/ selection' # selection \/ visibleRanges' # visibleRanges)
            => decorations' = buildDecorations(
                                  View(doc', tree', selection', visibleRanges'))
       ]_vars

\* Before any edit or click, the selection has left the caret at 0 and the
\* decoration set is the one of the current view, not the one built at
\* construction.
C10_Witness ==
    /\ edits = 0
    /\ doc \in EditDocs
    /\ selection # <<R(0, 0)>>
    /\ decorations = buildDecorations(CurView)
    /\ decorations # buildDecorations(
                        View(doc, tree, <<R(0, 0)>>, <<R(0, Len(doc))>>))

(***************************************************************************)
(* C11.  As claimed: in every reachable state, also after an update in     *)
(* which only the syntax tree advanced, the decoration set of the plugin   *)
(* is buildDecorations of the current document, tree, selection and        *)
(* visible ranges.                                                         *)
(***************************************************************************)
C11_DecorationsAreProjection == decorations = buildDecorations(CurView)

C13_OnlyToggleWritesDocument ==
    [][/\ (edits' = edits /\ fired' = NoClosure) => doc' = doc
       /\ (edits' = edits /\ fired' = NoClosure /\ decorations' # decorations)
              => (selection' = selection \/ visibleRanges' = visibleRanges)
       /\ (doc' # doc /\ edits' = edits) => fired' \in handlers
    ]_vars

\* Replacements are on screen after a selection change and the document
\* is still the text the editor was opened on.
C13_Witness ==
    /\ edits = 0
    /\ fired = NoClosure
    /\ doc \in EditDocs
    /\ selection # <<R(0, 0)>>
    /\ \E i \in 1..Len(decorations) : decorations[i].deco.family = "replace"

\* The character at offset k lies in a visible range.
Visible(k) ==
    \E i \in 1..Len(visibleRanges) :
        visibleRanges[i].from <= k /\ k + 1 <= visibleRanges[i].to

\* The entered nodes that enter(node) has a branch for.
Constructs ==
    {n \in Entered : \/ headingMatch(n.name) # -1
                     \/ n.name \in SpanKinds \cup {"ListItem", "Task"}}

(***************************************************************************)
(* C14.  As claimed: every committed decoration lies within the traversed  *)
(* range, that is, every character it covers is in a visible range.        *)
(***************************************************************************)
C14_Original ==
    \A i \in 1..Len(decorations) :
        \A k \in decorations[i].from..(decorations[i].to - 1) : Visible(k)

(***************************************************************************)
(* C14, amended.  Every committed decoration lies within the span of a     *)
(* construct node that touches a visible range; the replacement of a       *)
(* ListMark may reach one character past the span of its ListItem.         *)
(***************************************************************************)
C14_WithinEnteredNode ==
    \A i \in 1..Len(decorations) :
        \E n \in Constructs :
            /\ n.from <= decorations[i].from
            /\ decorations[i].to <=
                  n.to + (IF n.name = "ListItem" /\ decorations[i].deco.family = "replace"
                          THEN 1 ELSE 0)

\* Only the last line of the multi-line paragraph is visible and the
\* emphasis that began two lines earlier is decorated, markers included.
C14_Witness ==
    /\ Len(visibleRanges) = 1
    /\ visibleRanges[1].from > 0
    /\ \E n \in Spans :
          /\ n.from < visibleRanges[1].from
          /\ Hidden(FirstMark(n).from, FirstMark(n).to)

\* The ranges of a and b share a document offset.
Overlap(a, b) == a.from < b.to /\ b.from < a.to

\* The range of a contains the range of b.
Contains(a, b) == a.from <= b.from /\ b.to <= a.to

(***************************************************************************)
(* C15.  As claimed: no two committed decorations of one rebuild share a   *)
(* document offset.                                                        *)
(***************************************************************************)
C15_Original ==
    \A i \in 1..Len(decorations) : \A j \in (i + 1)..Len(decorations) :
        ~Overlap(decorations[i], decorations[j])

(***************************************************************************)
(* C15, amended.  Committed decorations overlap only by nesting under a    *)
(* style annotation: when two of them share a document offset, one is a    *)
(* style annotation whose range contains the range of the other, or the    *)
(* two are the same request committed twice.                               *)
(***************************************************************************)
C15_OverlapOnlyUnderStyle ==
    \A i \in 1..Len(decorations) : \A j \in (i + 1)..Len(decorations) :
        LET a == decorations[i]
            b == decorations[j]
        IN  Overlap(a, b)
            => \/ a.deco.family = "mark" /\ Contains(a, b)
               \/ b.deco.family = "mark" /\ Contains(b, a)
               \/ a = b

\* The HeaderMark of a heading is hidden under the heading's annotation.
C15_Witness ==
    \E n \in Headings :
        \E i, j \in 1..Len(decorations) :
            /\ decorations[i] = Req(n.from, n.to, headingDecorations[headingMatch(n.name)])
            /\ decorations[j].deco = hideDecoration
            /\ decorations[j].from = n.from
            /\ decorations[j].to < n.to

\* The committed decorations that are requests of the entered node n.
CommittedOf(n) ==
    {i \in 1..Len(decorations) :
        \E k \in 1..Len(enter(CurView, n, NoParent)) :
            decorations[i] = enter(CurView, n, NoParent)[k]}

ParentOf(n) ==
    LET ps == {p \in NodesOf(tree) : \E k \in 1..Len(p.children) : p.children[k] = n}
    IN  IF ps = {} THEN NoParent ELSE CHOOSE p \in ps : TRUE

\* The requests enter(node) makes for n that the commit loop would keep.
KeptRequestsOf(n) ==
    {r \in {enter(CurView, n, ParentOf(n))[k] :
                k \in 1..Len(enter(CurView, n, ParentOf(n)))} : r.from < r.to}

\* The nodes of the tree that touch no visible range.
Outside == {n \in NodesOf(tree) : n \notin Entered}

(***************************************************************************)
(* C17.  Decoration requests come only from nodes whose span touches a     *)
(* visible range: every committed decoration is a request of such a node,  *)
(* and no request of a node lying outside every visible range is           *)
(* committed.                                                              *)
(***************************************************************************)
C17_RequestsOnlyFromEnteredNodes ==
    /\ \A i \in 1..Len(decorations) :
          \E n \in Entered : decorations[i] \in KeptRequestsOf(n)
    /\ \A n \in Outside :
          \A i \in 1..Len(decorations) : decorations[i] \notin KeptRequestsOf(n)

\* A construct that would be decorated lies outside the visible ranges
\* while another one inside them is decorated.
C17_Witness ==
    /\ \E n \in Outside : KeptRequestsOf(n) # {}
    /\ decorations # <<>>

\* The text of d at [p, p + 3) is the task marker a widget with the given
\* checked state was built for.
MarkerAt(d, p, ck) ==
    /\ p >= 0 /\ p + 3 <= Len(d)
    /\ d[p + 1] = "[" /\ d[p + 3] = "]"
    /\ d[p + 2] \in (IF ck THEN {"x", "X"} ELSE {" "})

C19_DecorationsInsideDocument ==
    \A i \in 1..Len(decorations) :
        decorations[i].from >= 0 /\ decorations[i].to <= Len(doc)

(***************************************************************************)
(* C20.  As claimed: within one rebuild no two committed replacement       *)
(* decorations overlap or coincide, for any tree shape and any set of      *)
(* visible ranges.                                                         *)
(***************************************************************************)
C20_ReplacementsDisjoint ==
    \A i \in 1..Len(decorations) : \A j \in (i + 1)..Len(decorations) :
        (/\ decorations[i].deco.family = "replace"
         /\ decorations[j].deco.family = "replace")
        => ~Overlap(decorations[i], decorations[j])

\* The entered list items that hold a Task child and a ListMark.
TaskItems ==
    {n \in Entered : /\ n.name = "ListItem"
                     /\ ChildrenNamed(n, "Task") # <<>>
                     /\ ChildrenNamed(n, "ListMark") # <<>>}

\* The committed replacements that share an offset with [f, t).
ReplacementsOver(f, t) ==
    {i \in 1..Len(decorations) :
        /\ decorations[i].deco.family = "replace"
        /\ decorations[i].from < t /\ decorations[i].to > f}

(***************************************************************************)
(* C21.  As claimed: a list item that has a Task child receives no bullet  *)
(* and no numeral widget, and within one rebuild at most one committed     *)
(* replacement covers its ListMark span.                                   *)
(***************************************************************************)
C21_TaskItemMarkReplacedOnce ==
    \A n \in TaskItems :
        LET lm == ChildrenNamed(n, "ListMark")[1]
        IN  /\ \A i \in ReplacementsOver(lm.from, lm.to) :
                  decorations[i].deco.cls \notin {"cm-list-bullet", "cm-list-number"}
            /\ Cardinality(ReplacementsOver(lm.from, lm.to)) <= 1

\* The ListMark of the item of a task of Tasks.
ListMarkOf(t) == ChildrenNamed(t.item, "ListMark")[1]

(***************************************************************************)
(* C22.  For every entered Task whose list item has a ListMark, the hide   *)
(* of the ListMark (with the character after it) and the checkbox over the *)
(* TaskMarker are committed together: both or neither.                     *)
(***************************************************************************)
C22_ListMarkHiddenWithCheckbox ==
    \A t \in Tasks :
        ChildrenNamed(t.item, "ListMark") # <<>>
        => (Hidden(ListMarkOf(t).from, ListMarkOf(t).to + 1)
            <=> CheckboxAt(TaskMarkerOf(t).from, TaskMarkerOf(t).to))

\* A rebuild with the selection inside the text of a task item, away from
\* its markers: the list mark is hidden and the checkbox is shown.
C22_Witness ==
    \E t \in Tasks :
        /\ ChildrenNamed(t.item, "ListMark") # <<>>
        /\ Touched(TaskMarkerOf(t).to + 1, t.task.to)
        /\ Hidden(ListMarkOf(t).from, ListMarkOf(t).to + 1)
        /\ CheckboxAt(TaskMarkerOf(t).from, TaskMarkerOf(t).to)

\* The entered nodes whose expected marker children are all absent: a
\* heading without a HeaderMark, a code span without a CodeMark.
Markerless ==
    {n \in Entered :
        \/ headingMatch(n.name) \in 1..6 /\ ChildrenNamed(n, "HeaderMark") = <<>>
        \/ n.name = "InlineCode" /\ ChildrenNamed(n, "CodeMark") = <<>>}

MarkerEnd(n) == Min(ChildrenNamed(n, "HeaderMark")[1].to + 1, n.to)

(***************************************************************************)
(* C24.  As claimed: for every entered heading with a HeaderMark, a        *)
(* replacement committed inside the heading covers the HeaderMark and the  *)
(* character after it and ends at or before the node end, and every        *)
(* heading style annotation committed for the node covers exactly the      *)
(* content sub-range, from the end of the marker to the node end.          *)
(***************************************************************************)
C24_HeadingStyleOverContent ==
    \A n \in Headings : \A i \in CommittedOf(n) :
        IF decorations[i].deco.family = "replace"
        THEN /\ decorations[i].from = ChildrenNamed(n, "HeaderMark")[1].from
             /\ decorations[i].to = MarkerEnd(n)
             /\ decorations[i].to <= n.to
        ELSE /\ decorations[i].from = MarkerEnd(n)
             /\ decorations[i].to = n.to

\* The entered list items without a Task child whose ListMark no selection
\* range touches: the items whose mark is replaced by a widget.
PlainItems ==
    {n \in Entered :
        /\ n.name = "ListItem"
        /\ ChildrenNamed(n, "Task") = <<>>
        /\ ChildrenNamed(n, "ListMark") # <<>>
        /\ ~Touched(ChildrenNamed(n, "ListMark")[1].from,
                    ChildrenNamed(n, "ListMark")[1].to)}

\* The widget the claim expects for the marker text s (already trimmed).
ExpectedListWidget(s) ==
    IF /\ Len(s) >= 2
       /\ s[Len(s)] = "."
       /\ \A k \in 1..(Len(s) - 1) : s[k] \in Digits
    THEN orderedListDecoration(s)
    ELSE bulletDecoration

(***************************************************************************)
(* C25.  The ListMark of a list item without a Task, when hidden, is       *)
(* replaced by the numeral widget that carries the trimmed marker text if  *)
(* that text is a run of digits followed by ".", and by the bullet widget  *)
(* for every other marker text; a committed checkbox is checked exactly    *)
(* when the text of its TaskMarker contains "x" or "X".                    *)
(***************************************************************************)
C25_WidgetMatchesMarkerText ==
    /\ \A n \in PlainItems :
          LET lm == ChildrenNamed(n, "ListMark")[1]
              w  == ExpectedListWidget(trim(sliceDoc(doc, lm.from, lm.to)))
          IN  /\ \E i \in 1..Len(decorations) :
                    decorations[i] = Req(lm.from, lm.to + 1, w)
              /\ \A i \in ReplacementsOver(lm.from, lm.to) :
                    decorations[i] = Req(lm.from, lm.to + 1, w)
    /\ \A t \in Tasks : \A i \in 1..Len(decorations) :
          (/\ decorations[i].deco.cls = "cm-checkbox"
           /\ decorations[i].from = TaskMarkerOf(t).from)
          => (decorations[i].deco.checked
              <=> \E k \in (TaskMarkerOf(t).from + 1)..TaskMarkerOf(t).to :
                     doc[k] \in {"x", "X"})

\* The mark "2)" of an ordered item is replaced by the bullet widget while
\* the mark "1." of another document would carry its numeral.
C25_Witness ==
    \E n \in PlainItems :
        LET lm == ChildrenNamed(n, "ListMark")[1]
        IN  /\ sliceDoc(doc, lm.from, lm.to) = <<"2", ")">>
            /\ \E i \in 1..Len(decorations) :
                  decorations[i] = Req(lm.from, lm.to + 1, bulletDecoration)

(***************************************************************************)
(* C26.  As claimed: every committed replacement lies within one line of   *)
(* the document: it ends at or before the end of the line it begins on,    *)
(* so it covers no line break and does not reach past the last line.       *)
(***************************************************************************)
C26_ReplacementsWithinLine ==
    \A i \in 1..Len(decorations) :
        decorations[i].deco.family = "replace"
        => decorations[i].to <= LineEnd(decorations[i].from)

\* The decoration d after the checkbox with the captured offset p has been
\* toggled: that checkbox with its state negated, any other one as it was.
AfterToggle(d, p) ==
    IF d.deco.cls = "cm-checkbox" /\ d.deco.pos = p
    THEN Req(d.from, d.to, checkboxDecoration(~d.deco.checked, p))
    ELSE d

(***************************************************************************)
(* C27.  A step in which a checkbox closure runs, rebuild included,        *)
(* leaves the selection unchanged and changes the committed decorations    *)
(* only in the checkbox of that closure: it stays over the same range with *)
(* the same pos and the negated checked state, and every other decoration  *)
(* keeps its place, range and kind.                                        *)
(***************************************************************************)
C27_ToggleChangesOnlyThatCheckbox ==
    [][fired' # NoClosure =>
          /\ selection' = selection
          /\ \E i \in 1..Len(decorations) :
                decorations[i].deco = checkboxDecoration(fired'.checked, fired'.pos)
          /\ decorations' = [i \in 1..Len(decorations) |->
                                AfterToggle(decorations[i], fired'.pos)]
    ]_vars

\* The closure of a checked box has just run next to a hidden list mark:
\* the box is now committed unchecked and the hide is still there.
C27_Witness ==
    /\ fired # NoClosure
    /\ fired.checked
    /\ \E i \in 1..Len(decorations) :
          decorations[i].deco = checkboxDecoration(FALSE, fired.pos)
    /\ \E i \in 1..Len(decorations) : decorations[i].deco = hideDecoration

\* The document after the closure h of a checkbox on screen has run.
Activated(d, h) ==
    Splice(d, toggleChange(h).from, toggleChange(h).to, toggleChange(h).insert)

\* The closures on screen after a step that are bound to the offset p.
ClosuresAfter(p) == {h \in handlers' : h.pos = p}

(***************************************************************************)
(* C28.  As claimed: after a checkbox activation and its rebuild, a second *)
(* activation of the checkbox of the same task gives back exactly the text *)
(* the document had before the first one, whatever the marker text was.    *)
(***************************************************************************)
C28_Original ==
    [][fired' # NoClosure =>
          /\ ClosuresAfter(fired'.pos) # {}
          /\ \A h \in ClosuresAfter(fired'.pos) : Activated(doc', h) = doc
    ]_vars

(***************************************************************************)
(* C28, amended.  After a checkbox activation and its rebuild, a second    *)
(* activation of the checkbox of the same task gives back the text the     *)
(* document had before the first one, except that a marker that read "[X]" *)
(* reads "[x]": the text is restored exactly when the marker was "[ ]" or  *)
(* "[x]", and only the case of the letter is lost when it was "[X]".       *)
(***************************************************************************)
C28_TwoTogglesRestoreUpToCase ==
    [][fired' # NoClosure =>
          /\ ClosuresAfter(fired'.pos) # {}
          /\ \A h \in ClosuresAfter(fired'.pos) :
                Activated(doc', h) =
                    [doc EXCEPT ![fired'.pos + 2] = IF @ = "X" THEN "x" ELSE @]
    ]_vars

\* The box of the second line has been checked and unchecked again: the
\* closure of the checked box has just run and the document is the one the
\* session started from.
C28_Witness ==
    /\ fired = Widget(TRUE, 4)
    /\ doc = <<"a", "\n", "-", " ", "[", " ", "]", " ", "b">>

(***************************************************************************)
(* The theme hook (useTheme.ts 24-61) under React: a call of setThemeId is *)
(* queued and takes effect at the next render; the callbacks of a render   *)
(* close over the themeId of that render; the effect of a render runs      *)
(* before the next event is handled.                                       *)
(***************************************************************************)

\* The document MarkdownEditor creates its view with (line 38).
EditorDoc ==
    <<"#", "#", " ", "T", "e", "s", "t", " ", "H", "e", "a", "d", "i", "n",
      "g", "\n", "\n", "S", "o", "m", "e", " ", "*", "*", "b", "o", "l",
      "d", "*", "*", " ", "t", "e", "x", "t">>

\* The items localStorage can hold when the hook is first rendered, and the
\* ids a caller passes to setThemeId: the registered ids and one that is
\* not registered.
StoredItems == {NoItem, "midnight", "linen", "sepia"}
CallIds == {"midnight", "linen", "sepia"}

\* The first render of the hook (26, 29): the effect is scheduled.
InitTheme ==
    /\ ViewOn({[doc |-> EditorDoc, tree |-> Parse(EditorDoc)]})
    /\ EditorMounted
    /\ storage \in StoredItems
    /\ themeId = resolveStoredThemeId(storage)
    /\ theme = getThemeById(themeId)
    /\ updates = <<>>
    /\ effectDue = TRUE
    /\ rootTheme = NoItem
    /\ cycleRun = NoRun

\* A caller invokes setThemeId(id).
SetThemeId ==
    /\ ~effectDue
    /\ Len(updates) < MaxPending
    /\ \E id \in CallIds : updates' = Append(updates, id)
    /\ cycleRun' = NoRun
    /\ UNCHANGED <<themeId, theme, effectDue, storage, rootTheme>>
    /\ UNCHANGED <<viewVars, editorVars>>

\* A caller invokes cycleTheme (44-50).
CycleTheme ==
    /\ ~effectDue
    /\ Len(updates) < MaxPending
    /\ cycleRun.count < MaxRun
    /\ updates' = Append(updates, nextTheme(themeId).id)
    /\ cycleRun' = IF cycleRun.count = 0
                   THEN [origin |-> themeId, count |-> 1,
                         batched |-> updates # <<>>]
                   ELSE [cycleRun EXCEPT !.count = @ + 1,
                                         !.batched = @ \/ updates # <<>>]
    /\ UNCHANGED <<themeId, theme, effectDue, storage, rootTheme>>
    /\ UNCHANGED <<viewVars, editorVars>>

\* React renders the hook again: the queued updates are applied in order,
\* the memo of line 29 is recomputed, and the effect is scheduled when the
\* theme object is another one (38).
Render ==
    /\ updates # <<>>
    /\ themeId' = updates[Len(updates)]
    /\ theme' = getThemeById(themeId')
    /\ effectDue' = (theme' # theme)
    /\ updates' = <<>>
    /\ UNCHANGED <<storage, rootTheme, cycleRun>>
    /\ UNCHANGED <<viewVars, editorVars>>

\* The effect of lines 33-38 with applyTheme (applyTheme.ts 27-39).
Effect ==
    /\ effectDue
    /\ storage' = theme.id
    /\ rootTheme' = theme.id
    /\ effectDue' = FALSE
    /\ UNCHANGED <<themeId, theme, updates, cycleRun>>
    /\ UNCHANGED <<viewVars, editorVars>>

NextTheme ==
    \/ SetThemeId
    \/ CycleTheme
    \/ Render
    \/ Effect

SpecTheme == InitTheme /\ [][NextTheme]_vars

\* The ids of the registered themes.
ThemeIds == {THEMES[i].id : i \in 1..Len(THEMES)}

\* The id of the theme that follows id in THEMES, the first one after the
\* last; the first one also for an id that is not registered.
Follows(id) ==
    IF \E i \in 1..(Len(THEMES) - 1) : THEMES[i].id = id
    THEN THEMES[(CHOOSE i \in 1..(Len(THEMES) - 1) : THEMES[i].id = id) + 1].id
    ELSE THEMES[1].id

\* The step is a call of cycleTheme.
IsCycleCall == cycleRun'.count = cycleRun.count + 1

\* The active theme, the stored id and the applied id are registered (the
\* last two from the first run of the effect on).
ThemeRegistered ==
    /\ \E i \in 1..Len(THEMES) : theme = THEMES[i]
    /\ rootTheme # NoItem => (storage \in ThemeIds /\ rootTheme \in ThemeIds)

(***************************************************************************)
(* C29.  As claimed: a call of cycleTheme selects the theme that follows   *)
(* the current one in THEMES (the first after the last, and the first when *)
(* themeId is not registered); the active theme object, the stored id and  *)
(* the applied id are always those of a registered theme; and after        *)
(* THEMES.length consecutive calls of cycleTheme from a registered id,     *)
(* once rendered, themeId is that id again.                                *)
(***************************************************************************)
C29_Original ==
    /\ [](/\ ThemeRegistered
          /\ (/\ cycleRun.count = Len(THEMES)
              /\ updates = <<>>
              /\ cycleRun.origin \in ThemeIds) => themeId = cycleRun.origin)
    /\ [][IsCycleCall => updates'[Len(updates')] = Follows(themeId)]_vars

(***************************************************************************)
(* C29, amended.  A call of cycleTheme selects the theme that follows, in  *)
(* THEMES, the themeId of the render its callback belongs to (the first    *)
(* after the last, and the first when that themeId is not registered); the *)
(* active theme object, the stored id and the applied id are always those  *)
(* of a registered theme; and THEMES.length consecutive calls of           *)
(* cycleTheme from a registered id, each made after the previous call has  *)
(* been rendered, leave themeId at that id again.                          *)
(***************************************************************************)
C29_CycleFollowsRenderedTheme ==
    /\ [](/\ ThemeRegistered
          /\ (/\ cycleRun.count = Len(THEMES)
              /\ updates = <<>>
              /\ ~cycleRun.batched
              /\ cycleRun.origin \in ThemeIds) => themeId = cycleRun.origin)
    /\ [][IsCycleCall => updates'[Len(updates')] = Follows(themeId)]_vars

\* Two cycles from "linen", each rendered and its effect run: the hook has
\* wrapped to the first theme and is back on "linen".
C29_Witness ==
    /\ cycleRun = [origin |-> "linen", count |-> Len(THEMES), batched |-> FALSE]
    /\ updates = <<>>
    /\ ~effectDue
    /\ themeId = "linen"
    /\ storage = "linen"
    /\ rootTheme = "linen"

(***************************************************************************)
(* The component MarkdownEditor (MarkdownEditor.tsx 17-103) under React:   *)
(* the effect callbacks of a commit run in order; React may run the        *)
(* cleanup of the mount effect and the effects again on the mounted        *)
(* component (StrictMode, Fast Refresh); a timeout set by the mount effect *)
(* is never cleared and fires as its own task.  A view is its index in     *)
(* views.                                                                  *)
(***************************************************************************)

\* The values of theme.kind (ThemeKind).
Kinds == {"dark", "light"}

\* The tree of the empty document.
EmptyTree == N("Document", 0, 0, <<>>)

\* The view variables of `new EditorView` on the document d with the tree
\* tr (75-78), and, for the empty document, of no view on screen.
ViewBecomes(d, tr) ==
    /\ doc' = d
    /\ tree' = tr
    /\ selection' = <<R(0, 0)>>
    /\ visibleRanges' = <<R(0, Len(d))>>
    /\ decorations' = buildDecorations(View(d, tr, <<R(0, 0)>>, <<R(0, Len(d))>>))
    /\ handlers' = SyncDOM({}, decorations')
    /\ fired' = NoClosure
    /\ edits' = 0

\* The first commit of the component: the div is rendered, both effects
\* are scheduled, no view exists.
InitEditor ==
    /\ ViewOn({[doc |-> <<>>, tree |-> EmptyTree]})
    /\ ThemeSettled
    /\ containerRef = TRUE
    /\ editorViewRef = 0
    /\ views = <<>>
    /\ timers = 0
    /\ kind \in Kinds
    /\ effects = <<"mount", "theme">>
    /\ cleanupOf = 0
    /\ lastOp = NoOp

\* The mount effect (26-87).
MountEffect ==
    /\ effects # <<>> /\ Head(effects) = "mount"
    /\ effects' = Tail(effects)
    /\ IF ~containerRef \/ editorViewRef # 0
       THEN /\ cleanupOf' = 0
            /\ UNCHANGED <<editorViewRef, views, timers, viewVars>>
       ELSE /\ timers' = timers + 1
            /\ views' = Append(views, "live")
            /\ editorViewRef' = Len(views) + 1
            /\ cleanupOf' = Len(views) + 1
            /\ ViewBecomes(EditorDoc, Parse(EditorDoc))
    /\ UNCHANGED <<containerRef, kind, lastOp, themeVars>>

\* The cleanup that leaves editorViewRef pointing at the view it destroyed.
CleanupKeepingRef ==
    /\ effects # <<>> /\ Head(effects) = "cleanup"
    /\ effects' = Tail(effects)
    /\ cleanupOf' = 0
    /\ IF cleanupOf # 0
       THEN /\ views' = [views EXCEPT ![cleanupOf] = "destroyed"]
            /\ ViewBecomes(<<>>, EmptyTree)
       ELSE UNCHANGED <<views, viewVars>>
    /\ UNCHANGED <<editorViewRef, containerRef, timers, kind, lastOp, themeVars>>

\* The cleanup returned by the mount effect (83-86); a run of the effect
\* that returned early left no cleanup.
Cleanup ==
    /\ effects # <<>> /\ Head(effects) = "cleanup"
    /\ effects' = Tail(effects)
    /\ cleanupOf' = 0
    /\ IF cleanupOf # 0
       THEN /\ views' = [views EXCEPT ![cleanupOf] = "destroyed"]
            /\ editorViewRef' = 0
            /\ ViewBecomes(<<>>, EmptyTree)
       ELSE UNCHANGED <<views, editorViewRef, viewVars>>
    /\ UNCHANGED <<containerRef, timers, kind, lastOp, themeVars>>

\* The update a view makes of a transaction that changes neither document,
\* selection nor viewport; a destroyed view only stores the new state.
Reconfigured(v) ==
    /\ IF views[v] = "live"
       THEN /\ decorations' = update(Flags(FALSE, FALSE, FALSE),
                                     View(doc, tree, selection, visibleRanges),
                                     decorations)
            /\ handlers' = SyncDOM(handlers, decorations')
       ELSE UNCHANGED <<decorations, handlers>>
    /\ UNCHANGED <<doc, tree, selection, visibleRanges, fired, edits>>

\* The theme effect (89-100).
ThemeEffect ==
    /\ effects # <<>> /\ Head(effects) = "theme"
    /\ effects' = Tail(effects)
    /\ IF editorViewRef = 0
       THEN UNCHANGED <<lastOp, viewVars>>
       ELSE /\ lastOp' = [by |-> "theme", view |-> editorViewRef,
                          live |-> views[editorViewRef] = "live"]
            /\ Reconfigured(editorViewRef)
    /\ UNCHANGED <<containerRef, editorViewRef, views, timers, kind,
                   cleanupOf, themeVars>>

\* The parent renders the component with a theme of the other kind: the
\* theme effect is scheduled (dependency theme.kind, line 100).
ThemeKindChange ==
    /\ containerRef /\ effects = <<>>
    /\ kind' = CHOOSE k \in Kinds : k # kind
    /\ effects' = <<"theme">>
    /\ UNCHANGED <<containerRef, editorViewRef, views, timers, cleanupOf, lastOp>>
    /\ UNCHANGED <<viewVars, themeVars>>

\* React runs the cleanup and the effects again on the mounted component.
Remount ==
    /\ containerRef /\ effects = <<>>
    /\ Len(views) < MaxViews
    /\ effects' = <<"cleanup", "mount", "theme">>
    /\ UNCHANGED <<containerRef, editorViewRef, views, timers, kind, cleanupOf, lastOp>>
    /\ UNCHANGED <<viewVars, themeVars>>

\* React unmounts the component: the ref of the div is detached and the
\* cleanup is scheduled.
Unmount ==
    /\ containerRef /\ effects = <<>>
    /\ containerRef' = FALSE
    /\ effects' = <<"cleanup">>
    /\ UNCHANGED <<editorViewRef, views, timers, kind, cleanupOf, lastOp>>
    /\ UNCHANGED <<viewVars, themeVars>>

\* A debug timeout fires (50-73): it reads editorViewRef.current at that
\* moment; forceParsing finds the tree of the view complete.
TimerFires ==
    /\ timers > 0
    /\ timers' = timers - 1
    /\ lastOp' = IF editorViewRef = 0 THEN lastOp
                 ELSE [by |-> "timer", view |-> editorViewRef,
                       live |-> views[editorViewRef] = "live"]
    /\ UNCHANGED <<containerRef, editorViewRef, views, kind, effects, cleanupOf>>
    /\ UNCHANGED <<viewVars, themeVars>>

NextEditor ==
    \/ MountEffect
    \/ Cleanup
    \/ ThemeEffect
    \/ ThemeKindChange
    \/ Remount
    \/ Unmount
    \/ TimerFires

SpecEditor == InitEditor /\ [][NextEditor]_vars

\* The views that have not been destroyed.
LiveViews == {v \in 1..Len(views) : views[v] = "live"}

(***************************************************************************)
(* C30.  In every interleaving of the effects, the re-run of the effects,  *)
(* the unmount, the theme-kind change and the debug timeouts: at most one  *)
(* view is live, editorViewRef is null or a live view, and the view the    *)
(* theme effect dispatched to or a timeout used was live at that moment.   *)
(***************************************************************************)
C30_OnlyLiveViewIsUsed ==
    /\ Cardinality(LiveViews) <= 1
    /\ editorViewRef # 0 => editorViewRef \in LiveViews
    /\ lastOp.by # "none" => (lastOp.view # 0 /\ lastOp.live)

\* The effects have been run again: the first view is destroyed, and the
\* timeout set for it has fired and used the second view, which is live.
C30_Witness ==
    /\ views = <<"destroyed", "live">>
    /\ timers = 0
    /\ lastOp = [by |-> "timer", view |-> 2, live |-> TRUE]

====
